---- MODULE Spec2Model ----
(***************************************************************************)
(* Model of the proof-of-work ledger simulation (src/src/main.rs and       *)
(* src/src/transaction.rs): Transaction, Mempool, Block (mining loop) and  *)
(* Blockchain.                                                             *)
(*                                                                         *)
(* Strings that are hashed are sequences of one-character strings, so that *)
(* format!-concatenation, slicing (&hash[..n]) and str::repeat are the     *)
(* operations the code performs.  Sha256 is abstracted by a deterministic  *)
(* polynomial digest of HashLen hex characters.  f64 amounts are integers. *)
(*                                                                         *)
(* The build-time constant DIFFICULTY is the state component `difficulty`, *)
(* fixed by Init to a value of 0..MaxDifficulty (the built-in 2 included)  *)
(* and never changed: one behaviour is one build of the program.  The      *)
(* `iterations` counter of mine_block only drives progress printing and    *)
(* sleeping and is left out.                                               *)
(***************************************************************************)
EXTENDS Integers, Sequences, FiniteSets, Bags, TLC

VARIABLES difficulty, chain, mempool, pc, op, cur, ret, pre, now

vars == <<difficulty, chain, mempool, pc, op, cur, ret, pre, now>>

(***************************************************************************)
(* Program constants.                                                      *)
(***************************************************************************)
DIFFICULTY == 2

REWARD_AMOUNT == 100

(***************************************************************************)
(* Bounds of the model.                                                    *)
(***************************************************************************)
MaxDifficulty == 2

MaxChain == 2

MaxTx == 2

MaxNonce == 60

HashLen == 3

(***************************************************************************)
(* Inputs.                                                                 *)
(***************************************************************************)
COINBASE_SENDER == "0"

\* seconds since the epoch read from SystemTime::now(), as an offset
Times == {0}

Addresses == {"alice", "bob", "miner1", COINBASE_SENDER}

Miners == {"miner1", "alice"}

\* (sender, recipient, amount, private_key) of create_transaction calls
CreateArgs ==
    { <<"alice", "bob", 50, "k1">>,
      <<"bob", "alice", 20, "k2">>,
      <<"alice", "0", -5, "">>,
      <<"miner1", "alice", 0, "k1">> }

\* index and previous_hash given to Block::new by callers of add_block
BlockIndexes == {0, 1}

BlockPrevHashes == {"", "x"}

(***************************************************************************)
(* Strings as character sequences.                                         *)
(***************************************************************************)
Alphabet ==
    << "0", "1", "2", "3", "4", "5", "6", "7", "8", "9",
       "a", "b", "c", "d", "e", "f", "g", "h", "i", "j",
       "k", "l", "m", "n", "o", "p", "q", "r", "s", "t",
       "u", "v", "w", "x", "y", "z", ":", "-" >>

CharSet == {Alphabet[i] : i \in 1..Len(Alphabet)}

CharCode == [c \in CharSet |-> CHOOSE i \in 1..Len(Alphabet) : Alphabet[i] = c]

Chars(s) ==
    CASE s = ""       -> << >>
      [] s = "0"      -> <<"0">>
      [] s = "alice"  -> <<"a", "l", "i", "c", "e">>
      [] s = "bob"    -> <<"b", "o", "b">>
      [] s = "miner1" -> <<"m", "i", "n", "e", "r", "1">>
      [] s = "k1"     -> <<"k", "1">>
      [] s = "k2"     -> <<"k", "2">>
      [] s = "x"      -> <<"x">>

\* str::repeat
RECURSIVE Repeat(_, _)
Repeat(s, n) == IF n = 0 THEN << >> ELSE s \o Repeat(s, n - 1)

\* Display of an unsigned integer
RECURSIVE FmtNat(_)
FmtNat(n) ==
    IF n < 10 THEN <<Alphabet[n + 1]>>
    ELSE FmtNat(n \div 10) \o <<Alphabet[(n % 10) + 1]>>

\* Display of an amount (f64 holding an integral value)
FmtAmount(a) == IF a < 0 THEN <<"-">> \o FmtNat(0 - a) ELSE FmtNat(a)

(***************************************************************************)
(* Sha256 and its lower-hex rendering, format!("{:x}", hasher.finalize()). *)
(***************************************************************************)
RECURSIVE Pow(_, _)
Pow(b, e) == IF e = 0 THEN 1 ELSE b * Pow(b, e - 1)

HashSpace == Pow(16, HashLen)

RECURSIVE DigestFrom(_, _, _)
DigestFrom(h, data, i) ==
    IF i > Len(data) THEN h
    ELSE DigestFrom((h * 31 + CharCode[data[i]]) % 65521, data, i + 1)

\* hasher.update(data); hasher.finalize().  data is bound once, as a value.
Digest(data) ==
    CHOOSE v \in {(DigestFrom(7, d, 1) * 3271) % HashSpace : d \in {data}} : TRUE

RECURSIVE ToHex(_, _)
ToHex(n, len) ==
    IF len = 0 THEN << >>
    ELSE ToHex(n \div 16, len - 1) \o <<Alphabet[(n % 16) + 1]>>

Sha256Hex(data) ==
    CHOOSE s \in {ToHex(n, HashLen) : n \in {Digest(data)}} : TRUE

(***************************************************************************)
(* Transaction (transaction.rs).                                           *)
(***************************************************************************)
\* Transaction::new
NewTransaction(sender, recipient, amount, t) ==
    [sender |-> sender, recipient |-> recipient, amount |-> amount,
     timestamp |-> t, signature |-> << >>]

\* Transaction::calculate_hash
TxCalculateHash(tx) ==
    Sha256Hex(Chars(tx.sender) \o Chars(tx.recipient) \o FmtAmount(tx.amount)
              \o FmtNat(tx.timestamp))

\* Transaction::sign
Sign(tx, private_key) ==
    [tx EXCEPT !.signature =
        Sha256Hex(Chars(private_key) \o <<":">> \o TxCalculateHash(tx))]

\* a verify_signature that also validates the amount
VerifySignaturePositiveAmount(tx) ==
    tx.signature # << >> /\ tx.amount > 0

\* a verify_signature that accepts every transaction
VerifySignatureAlways(tx) == TRUE

\* Transaction::verify_signature
VerifySignature(tx) ==
    IF tx.signature = << >> THEN FALSE ELSE tx.signature # << >>

(***************************************************************************)
(* Mempool (transaction.rs).  The pool is the Vec `transactions`.          *)
(***************************************************************************)
\* an add_transaction that inserts at the front
MempoolAddFront(pool, tx) ==
    IF ~VerifySignature(tx)
    THEN [pool |-> pool, ok |-> FALSE]
    ELSE [pool |-> <<tx>> \o pool, ok |-> TRUE]

\* an add_transaction that pushes before it verifies
MempoolAddThenReject(pool, tx) ==
    [pool |-> Append(pool, tx), ok |-> VerifySignature(tx)]

\* Mempool::add_transaction: the pool after the call and the returned bool
MempoolAdd(pool, tx) ==
    IF ~VerifySignature(tx)
    THEN [pool |-> pool, ok |-> FALSE]
    ELSE [pool |-> Append(pool, tx), ok |-> TRUE]

\* a get_transactions that returns all but the last transaction
MempoolDrainDropsLast(pool) ==
    [taken |-> SubSeq(pool, 1, Len(pool) - 1), pool |-> << >>]

\* a get_transactions that forgets to clear
MempoolDrainKeeps(pool) == [taken |-> pool, pool |-> pool]

\* Mempool::get_transactions: the returned Vec and the pool after the call
MempoolDrain(pool) == [taken |-> pool, pool |-> << >>]

\* Mempool::len
MempoolLen(pool) == Len(pool)

(***************************************************************************)
(* Block (main.rs).                                                        *)
(***************************************************************************)
\* Block::new
NewBlock(index, previous_hash, transactions, t) ==
    [index |-> index, previous_hash |-> previous_hash, timestamp |-> t,
     transactions |-> transactions, nonce |-> 0, hash |-> << >>]

RECURSIVE TxHashes(_, _)
TxHashes(txs, i) ==
    IF i > Len(txs) THEN << >>
    ELSE TxCalculateHash(txs[i]) \o TxHashes(txs, i + 1)

\* Block::calculate_hash
CalculateHash(b) ==
    Sha256Hex(FmtNat(b.index) \o b.previous_hash \o FmtNat(b.timestamp)
              \o TxHashes(b.transactions, 1) \o FmtNat(b.nonce))

\* an exit test that lost its prefix comparison
MeetsTargetNoPrefix(hash, d) == hash # << >>

\* The exit test of the loop of Block::mine_block, for difficulty d
MeetsTarget(hash, d) ==
    hash # << >> /\ SubSeq(hash, 1, d) = Repeat(<<"0", "0">>, d)

(***************************************************************************)
(* Blockchain (main.rs).                                                   *)
(***************************************************************************)
Tip(c) == c[Len(c)]

\* get_balance crediting the sender instead of debiting
RECURSIVE BalanceOverTxsCreditSender(_, _, _, _)
BalanceOverTxsCreditSender(balance, txs, i, address) ==
    IF i > Len(txs) THEN balance
    ELSE LET tx == txs[i]
             b1 == IF tx.sender = address THEN balance + tx.amount ELSE balance
             b2 == IF tx.recipient = address THEN b1 + tx.amount ELSE b1
         IN  BalanceOverTxsCreditSender(b2, txs, i + 1, address)

\* get_balance with `else if` for the recipient test
RECURSIVE BalanceOverTxsElseIf(_, _, _, _)
BalanceOverTxsElseIf(balance, txs, i, address) ==
    IF i > Len(txs) THEN balance
    ELSE LET tx == txs[i]
             b2 == IF tx.sender = address THEN balance - tx.amount
                   ELSE IF tx.recipient = address THEN balance + tx.amount
                   ELSE balance
         IN  BalanceOverTxsElseIf(b2, txs, i + 1, address)

RECURSIVE BalanceOverTxs(_, _, _, _)
BalanceOverTxs(balance, txs, i, address) ==
    IF i > Len(txs) THEN balance
    ELSE LET tx == txs[i]
             b1 == IF tx.sender = address THEN balance - tx.amount ELSE balance
             b2 == IF tx.recipient = address THEN b1 + tx.amount ELSE b1
         IN  BalanceOverTxs(b2, txs, i + 1, address)

RECURSIVE BalanceOverChain(_, _, _, _)
BalanceOverChain(balance, c, i, address) ==
    IF i > Len(c) THEN balance
    ELSE BalanceOverChain(BalanceOverTxs(balance, c[i].transactions, 1, address),
                          c, i + 1, address)

\* a coinbase with sender and recipient swapped
CoinbaseTxSwapped(miner_address, t) ==
    NewTransaction(miner_address, COINBASE_SENDER, REWARD_AMOUNT, t)

\* the coinbase transaction of mine_pending_transactions
CoinbaseTx(miner_address, t) ==
    NewTransaction(COINBASE_SENDER, miner_address, REWARD_AMOUNT, t)

\* block_transactions with the coinbase pushed last
BlockTransactionsCoinbaseLast(coinbase_tx, transactions) ==
    transactions \o <<coinbase_tx>>

\* block_transactions of mine_pending_transactions
BlockTransactions(coinbase_tx, transactions) == <<coinbase_tx>> \o transactions

\* mine_pending_transactions without its early return
NothingToMineNever(transactions) == FALSE

\* the early return of mine_pending_transactions
NothingToMine(transactions) == transactions = << >>

\* add_block keeping the previous_hash it was given
LinkToTipSkipped(new_block, c) == new_block

\* add_block: new_block.previous_hash = previous_hash of the tip
LinkToTip(new_block, c) == [new_block EXCEPT !.previous_hash = Tip(c).hash]

\* a push that overwrites the tip
PushOverTip(c, b) == [c EXCEPT ![Len(c)] = b]

\* self.chain.push(new_block)
Push(c, b) == Append(c, b)

\* Blockchain::get_balance
GetBalance(c, address) == BalanceOverChain(0, c, 1, address)

\* Blockchain::get_total_blocks
GetTotalBlocks == Len(chain)

\* Blockchain::get_pending_transaction_count
GetPendingTransactionCount == MempoolLen(mempool)

(***************************************************************************)
(* State.  pc is the position of the single thread: "idle" between calls,  *)
(* "mining" inside the loop of mine_block, "mined" after its break,        *)
(* "panicked" after an arithmetic-overflow panic.  op is the call in       *)
(* progress or last returned, ret its return value, pre the chain and the  *)
(* pool at the time of the call, cur the local new_block of add_block and  *)
(* mine_pending_transactions (a sequence of length 0 or 1).                *)
(***************************************************************************)
Call(name, args) == [name |-> name, args |-> args]

Pending == "pending"

Snapshot == [chain |-> chain, mempool |-> mempool]

RECURSIVE SignedInTxs(_, _)
SignedInTxs(txs, i) ==
    IF i > Len(txs) THEN 0
    ELSE (IF txs[i].signature # << >> THEN 1 ELSE 0) + SignedInTxs(txs, i + 1)

RECURSIVE SignedInChain(_, _)
SignedInChain(c, i) ==
    IF i > Len(c) THEN 0
    ELSE SignedInTxs(c[i].transactions, 1) + SignedInChain(c, i + 1)

\* number of signed transactions held by the chain, the pool and the block
\* being mined: the create_transaction calls so far, less the transactions
\* a caller of get_transactions took away
TxCreated == SignedInChain(chain, 1) + Len(mempool) +
             (IF cur = << >> THEN 0 ELSE SignedInTxs(cur[1].transactions, 1))

\* a genesis block with an empty previous hash
GenesisBlockEmptyPrev(t) == NewBlock(0, << >>, << >>, t)

\* genesis_block of Blockchain::new: Block::new(0, "0", vec![])
GenesisBlock(t) == NewBlock(0, Chars("0"), << >>, t)

\* Blockchain::new, up to the call of mine_block on the genesis block
Init ==
    /\ difficulty \in 0..MaxDifficulty
    /\ now \in Times
    /\ chain = <<GenesisBlock(now)>>
    /\ mempool = << >>
    /\ pc = "mining"
    /\ op = Call("new", << >>)
    /\ cur = << >>
    /\ ret = Pending
    /\ pre = [chain |-> << >>, mempool |-> << >>]

\* The block mine_block is working on: chain[0] in Blockchain::new, the local
\* new_block otherwise
MiningBlock == IF op.name = "new" THEN chain[1] ELSE cur[1]

SetMiningBlock(b) ==
    IF op.name = "new"
    THEN chain' = [chain EXCEPT ![1] = b] /\ cur' = cur
    ELSE cur' = <<b>> /\ chain' = chain

\* a break that still increments the nonce
MinedBlockNonceBumped(b, h) == [b EXCEPT !.hash = h, !.nonce = b.nonce + 1]

\* The block when the loop of Block::mine_block breaks: self.hash was
\* assigned, self.nonce is the nonce that hash was computed from
MinedBlock(b, h) == [b EXCEPT !.hash = h]

\* One iteration of the loop of Block::mine_block.  nonce is a u64: MaxNonce
\* stands for u64::MAX, where `self.nonce += 1` panics (overflow checks on)
\* or wraps to 0 (overflow checks off).
MineStep ==
    /\ pc = "mining"
    /\ LET b == MiningBlock
           h == CalculateHash(b)
       IN  IF MeetsTarget(h, difficulty)
           THEN /\ SetMiningBlock(MinedBlock(b, h))
                /\ pc' = "mined"
           ELSE IF b.nonce < MaxNonce
           THEN /\ SetMiningBlock([b EXCEPT !.hash = h, !.nonce = b.nonce + 1])
                /\ pc' = pc
           ELSE \/ /\ SetMiningBlock([b EXCEPT !.hash = h, !.nonce = 0])
                   /\ pc' = pc
                \/ /\ SetMiningBlock([b EXCEPT !.hash = h])
                   /\ pc' = "panicked"
    /\ UNCHANGED <<difficulty, mempool, op, ret, pre, now>>

\* Blockchain::new returns
NewReturn ==
    /\ pc = "mined" /\ op.name = "new"
    /\ pc' = "idle"
    /\ ret' = "unit"
    /\ UNCHANGED <<difficulty, chain, mempool, op, cur, pre, now>>

\* self.chain.push(new_block) and the return of add_block or
\* mine_pending_transactions
PushBlock ==
    /\ pc = "mined" /\ op.name # "new"
    /\ chain' = Push(chain, cur[1])
    /\ cur' = << >>
    /\ pc' = "idle"
    /\ ret' = IF op.name = "mine_pending_transactions" THEN "true" ELSE "unit"
    /\ UNCHANGED <<difficulty, mempool, op, pre, now>>

\* Blockchain::create_transaction
CreateTransaction(sender, recipient, amount, private_key, t) ==
    /\ pc = "idle"
    /\ TxCreated < MaxTx
    /\ LET tx == Sign(NewTransaction(sender, recipient, amount, t), private_key)
           r  == MempoolAdd(mempool, tx)
       IN  /\ mempool' = r.pool
           /\ ret' = IF r.ok THEN "true" ELSE "false"
    /\ op' = Call("create_transaction", <<sender, recipient, amount, private_key>>)
    /\ pre' = Snapshot
    /\ now' = t
    /\ UNCHANGED <<difficulty, chain, pc, cur>>

\* Blockchain::mine_pending_transactions, up to the call of mine_block
MinePendingTransactions(miner_address, t1, t2) ==
    /\ pc = "idle"
    /\ mempool = << >> \/ Len(chain) < MaxChain
    /\ LET d == MempoolDrain(mempool)
       IN  /\ mempool' = d.pool
           /\ IF NothingToMine(d.taken)
              THEN /\ ret' = "false"
                   /\ now' = now
                   /\ UNCHANGED <<pc, cur>>
              ELSE LET coinbase_tx == CoinbaseTx(miner_address, t1)
                       block_transactions == BlockTransactions(coinbase_tx, d.taken)
                   IN  /\ cur' = <<NewBlock(Len(chain), Tip(chain).hash,
                                            block_transactions, t2)>>
                       /\ pc' = "mining"
                       /\ ret' = Pending
                       /\ now' = t2
    /\ op' = Call("mine_pending_transactions", <<miner_address>>)
    /\ pre' = Snapshot
    /\ UNCHANGED <<difficulty, chain>>

\* Blockchain::add_block, up to the call of mine_block; new_block was built
\* by Block::new(index, previous_hash, transactions)
AddBlock(index, previous_hash, transactions, t) ==
    /\ pc = "idle"
    /\ Len(chain) < MaxChain
    /\ LET new_block == NewBlock(index, previous_hash, transactions, t)
       IN  cur' = <<LinkToTip(new_block, chain)>>
    /\ pc' = "mining"
    /\ ret' = Pending
    /\ op' = Call("add_block", <<index, previous_hash>>)
    /\ pre' = Snapshot
    /\ now' = t
    /\ UNCHANGED <<difficulty, chain, mempool>>

\* Mempool::add_transaction called on self.mempool
AddTransaction(tx) ==
    /\ pc = "idle"
    /\ TxCreated < MaxTx
    /\ LET r == MempoolAdd(mempool, tx)
       IN  /\ mempool' = r.pool
           /\ ret' = IF r.ok THEN "true" ELSE "false"
    /\ op' = Call("add_transaction", <<tx>>)
    /\ pre' = Snapshot
    /\ UNCHANGED <<difficulty, chain, pc, cur, now>>

\* Mempool::get_transactions called on self.mempool; the caller keeps the Vec
GetTransactions ==
    /\ pc = "idle"
    /\ LET d == MempoolDrain(mempool)
       IN  /\ mempool' = d.pool
           /\ ret' = d.taken
    /\ op' = Call("get_transactions", << >>)
    /\ pre' = Snapshot
    /\ UNCHANGED <<difficulty, chain, pc, cur, now>>

\* Blockchain::get_balance
GetBalanceCall(address) ==
    /\ pc = "idle"
    /\ op' = Call("get_balance", <<address>>)
    /\ ret' = GetBalance(chain, address)
    /\ pre' = Snapshot
    /\ UNCHANGED <<difficulty, chain, mempool, pc, cur, now>>

Later(t) == {u \in Times : u >= t}

\* Blocks handed to add_block: any index, any previous_hash, with or without
\* a transaction that never went through the mempool
AddBlockTxs == { << >>, <<NewTransaction("bob", "bob", 7, 0)>> }

\* Transactions handed to Mempool::add_transaction directly: sign never
\* called, or called by the caller
DirectTxs ==
    { NewTransaction("alice", "bob", 50, 0),
      NewTransaction("bob", "alice", 20, 1),
      Sign(NewTransaction("bob", "miner1", 5, 0), "k2") }

Next ==
    \/ MineStep
    \/ NewReturn
    \/ PushBlock
    \/ \E a \in CreateArgs, t \in Later(now) :
          CreateTransaction(a[1], a[2], a[3], a[4], t)
    \/ \E m \in Miners, t1 \in Later(now) : \E t2 \in Later(t1) :
          MinePendingTransactions(m, t1, t2)
    \/ \E i \in BlockIndexes, p \in BlockPrevHashes, txs \in AddBlockTxs,
          t \in Later(now) :
          AddBlock(i, Chars(p), txs, t)
    \/ \E tx \in DirectTxs : AddTransaction(tx)
    \/ GetTransactions
    \/ \E a \in Addresses : GetBalanceCall(a)

Spec == Init /\ [][Next]_vars

\* fn main: the calls of the demo scenario in their order; the call last made
\* tells the position
MainNext ==
    \/ MineStep
    \/ NewReturn
    \/ PushBlock
    \/ /\ op.name = "new"
       /\ \E t \in Later(now) : CreateTransaction("alice", "bob", 50, "k1", t)
    \/ /\ op.name = "create_transaction" /\ op.args[1] = "alice"
       /\ \E t \in Later(now) : CreateTransaction("bob", "alice", 20, "k2", t)
    \/ /\ op.name = "create_transaction" /\ op.args[1] = "bob"
       /\ \E t1 \in Later(now) : \E t2 \in Later(t1) :
             MinePendingTransactions("miner1", t1, t2)
    \/ /\ op.name = "mine_pending_transactions"
       /\ GetBalanceCall("miner1")
    \/ /\ op.name = "get_balance" /\ op.args[1] = "miner1"
       /\ GetBalanceCall("alice")
    \/ /\ op.name = "get_balance" /\ op.args[1] = "alice"
       /\ GetBalanceCall("bob")

\* main is one sequential thread: it takes its next step whenever it has one
MainSpec == Init /\ [][MainNext]_vars /\ WF_vars(MainNext)

\* mine_block, the push and the returns are steps of the running thread
FairSpec == Spec /\ WF_vars(MineStep) /\ WF_vars(NewReturn) /\ WF_vars(PushBlock)

\* A client that calls only create_transaction and mine_pending_transactions
LedgerNext ==
    \/ MineStep
    \/ NewReturn
    \/ PushBlock
    \/ \E a \in CreateArgs, t \in Later(now) :
          CreateTransaction(a[1], a[2], a[3], a[4], t)
    \/ \E m \in Miners, t1 \in Later(now) : \E t2 \in Later(t1) :
          MinePendingTransactions(m, t1, t2)

\* the calls of that client, mine_block, the push and the returns being
\* steps of the running thread
LedgerSpec ==
    /\ Init /\ [][LedgerNext]_vars
    /\ WF_vars(MineStep) /\ WF_vars(NewReturn) /\ WF_vars(PushBlock)

(***************************************************************************)
(* Properties.                                                             *)
(***************************************************************************)
\* no call is in progress: the last call has returned
Returned == pc = "idle"

\* What the target means: the first d characters of the hex hash are '0'
LeadingZeros(hash, d) ==
    Len(hash) >= d /\ \A i \in 1..d : hash[i] = "0"

\* C1: hash linkage.  Whenever an operation has returned, every block after
\* the first names the hash of the block before it as its previous_hash.
C1_HashLinkage ==
    Returned =>
        \A i \in 2..Len(chain) : chain[i].previous_hash = chain[i - 1].hash

\* add_block has returned after being given a block whose previous_hash was
\* not the hash of the tip
C1_Witness ==
    /\ Returned /\ op.name = "add_block"
    /\ Len(chain) >= 2
    /\ op.args[2] # Tip(pre.chain).hash

QualifyingNonceExists(b, d) ==
    \E n \in 0..MaxNonce :
        LeadingZeros(CalculateHash([b EXCEPT !.nonce = n]), d)

\* C3: mining terminates.  With the built-in DIFFICULTY, a mine_block whose
\* nonce sequence reaches a qualifying nonce eventually leaves its loop with
\* the block mined.  (A run that ends in the overflow panic of the nonce is
\* not held against the claim, so that a refutation is a loop that runs
\* for ever.)
C3_MiningTerminates ==
    (pc = "mining" /\ difficulty = DIFFICULTY
        /\ QualifyingNonceExists(MiningBlock, difficulty))
    ~> (pc = "mined" \/ pc = "panicked")

\* C4: difficulty target.  For every difficulty d, when mine_block has
\* returned the first d characters of the block's hash are '0', and so are
\* those of every block of the chain once an operation has returned.
C4_DifficultyTarget ==
    /\ pc = "mined" => LeadingZeros(MiningBlock.hash, difficulty)
    /\ Returned =>
          \A i \in 1..Len(chain) : LeadingZeros(chain[i].hash, difficulty)

\* mine_block has returned for the genesis block and for a later block
C4_Witness ==
    /\ Returned /\ Len(chain) >= 2
    /\ \A i \in 1..Len(chain) : chain[i].hash # << >>

\* C5: post-condition of a successful mine.  When
\* mine_pending_transactions(miner) has returned true, nothing is pending,
\* the chain is one block longer than at the call, the tip's first
\* transaction is the coinbase ("0" -> miner, REWARD_AMOUNT) and the rest of
\* its transactions are those the mempool held at the call.
C5_MinePostcondition ==
    (Returned /\ op.name = "mine_pending_transactions" /\ ret = "true") =>
        /\ GetPendingTransactionCount = 0
        /\ Len(chain) = Len(pre.chain) + 1
        /\ SubSeq(chain, 1, Len(pre.chain)) = pre.chain
        /\ LET txs == Tip(chain).transactions
           IN  /\ Len(txs) >= 1
               /\ txs[1].sender = COINBASE_SENDER
               /\ txs[1].recipient = op.args[1]
               /\ txs[1].amount = REWARD_AMOUNT
               /\ SubSeq(txs, 2, Len(txs)) = pre.mempool

\* a mine by a miner who is also a party of pending transactions has
\* returned true
C5_Witness ==
    /\ Returned /\ op.name = "mine_pending_transactions" /\ ret = "true"
    /\ op.args[1] = "alice"
    /\ Len(pre.mempool) = 2

\* C6: nothing to mine.  A call of mine_pending_transactions on an empty
\* mempool returns false in one step and leaves chain and mempool as they
\* were: no block is built and no mining step is taken.
C6_NothingToMine ==
    [][(pc = "idle" /\ mempool = << >> /\ op'.name = "mine_pending_transactions")
          => /\ ret' = "false"
             /\ pc' = "idle"
             /\ chain' = chain
             /\ mempool' = << >>
             /\ cur' = << >>]_vars

\* mine_pending_transactions has returned false on a chain that already
\* holds a block with a coinbase
C6_Witness ==
    /\ Returned /\ op.name = "mine_pending_transactions" /\ ret = "false"
    /\ pre.mempool = << >>
    /\ Len(chain) >= 2
    /\ Tip(chain).transactions # << >>
    /\ Tip(chain).transactions[1].sender = COINBASE_SENDER

\* C7: admission rule.  add_transaction returns false, changing nothing,
\* exactly for a transaction with an empty signature and appends any other;
\* a transaction signed with any secret is admitted, so create_transaction
\* returns true for every sender, recipient, amount and secret.
C7_AdmissionRule ==
    /\ \A a \in CreateArgs, t \in Times :
          LET unsigned == NewTransaction(a[1], a[2], a[3], t)
              signed   == Sign(unsigned, a[4])
          IN  /\ MempoolAdd(mempool, unsigned) = [pool |-> mempool, ok |-> FALSE]
              /\ MempoolAdd(mempool, signed) =
                    [pool |-> Append(mempool, signed), ok |-> TRUE]
    /\ op.name = "create_transaction" =>
          /\ ret = "true"
          /\ Len(mempool) = Len(pre.mempool) + 1
          /\ Tip(mempool).sender = op.args[1]
          /\ Tip(mempool).signature # << >>
    /\ op.name = "add_transaction" =>
          ret = (IF op.args[1].signature = << >> THEN "false" ELSE "true")

\* create_transaction has returned true for a negative amount and the empty
\* secret
C7_Witness ==
    /\ Returned /\ op.name = "create_transaction" /\ ret = "true"
    /\ op.args[3] < 0
    /\ op.args[4] = ""

\* every transaction of the chain, block after block
RECURSIVE ChainTxs(_, _)
ChainTxs(c, i) ==
    IF i > Len(c) THEN << >> ELSE c[i].transactions \o ChainTxs(c, i + 1)

\* the identifiers that occur as sender or recipient in the chain
OccurringIds(c) ==
    LET txs == ChainTxs(c, 1)
    IN  {txs[j].sender : j \in 1..Len(txs)} \cup {txs[j].recipient : j \in 1..Len(txs)}

RECURSIVE SumBalances(_, _)
SumBalances(c, ids) ==
    IF ids = {} THEN 0
    ELSE LET a == CHOOSE x \in ids : TRUE
         IN  GetBalance(c, a) + SumBalances(c, ids \ {a})

\* a coinbase: the first transaction of a block, sent by the sentinel
IsCoinbase(b, j) == j = 1 /\ b.transactions[1].sender = COINBASE_SENDER

RECURSIVE CoinbaseTotal(_, _)
CoinbaseTotal(c, i) ==
    IF i > Len(c) THEN 0
    ELSE (IF c[i].transactions # << >> /\ IsCoinbase(c[i], 1)
          THEN c[i].transactions[1].amount ELSE 0) + CoinbaseTotal(c, i + 1)

\* no transaction other than a coinbase names the sentinel, and no coinbase
\* pays the sentinel
SentinelOnlyInCoinbase(c) ==
    \A i \in 1..Len(c) : \A j \in 1..Len(c[i].transactions) :
        LET tx == c[i].transactions[j]
        IN  /\ tx.recipient # COINBASE_SENDER
            /\ tx.sender = COINBASE_SENDER => IsCoinbase(c[i], j)

RECURSIVE Received(_, _, _)
Received(txs, i, a) ==
    IF i > Len(txs) THEN 0
    ELSE (IF txs[i].recipient = a THEN txs[i].amount ELSE 0) + Received(txs, i + 1, a)

RECURSIVE Sent(_, _, _)
Sent(txs, i, a) ==
    IF i > Len(txs) THEN 0
    ELSE (IF txs[i].sender = a THEN txs[i].amount ELSE 0) + Sent(txs, i + 1, a)

\* C9: balance is a replay of the whole chain.  For every address,
\* get_balance is the sum of the amounts it received minus the sum of the
\* amounts it sent over all transactions of all blocks (pending transactions
\* not counted), and the query changes neither chain nor mempool.
C9_BalanceReplay ==
    /\ \A a \in Addresses :
          GetBalance(chain, a) =
             Received(ChainTxs(chain, 1), 1, a) - Sent(ChainTxs(chain, 1), 1, a)
    /\ (Returned /\ op.name = "get_balance") =>
          /\ ret = Received(ChainTxs(chain, 1), 1, op.args[1])
                   - Sent(ChainTxs(chain, 1), 1, op.args[1])
          /\ chain = pre.chain
          /\ mempool = pre.mempool

\* get_balance has returned a non-zero balance for an address that also has
\* a transaction pending
C9_Witness ==
    /\ Returned /\ op.name = "get_balance" /\ ret # 0
    /\ mempool # << >>
    /\ mempool[1].sender = op.args[1]
    /\ mempool[1].amount # 0

\* the observations of the reference scenario, at the end of main's calls
ScenarioObserved ==
    /\ Returned /\ op.name = "get_balance" /\ op.args[1] = "bob"
    /\ GetPendingTransactionCount = 0
    /\ GetTotalBlocks = 2
    /\ GetBalance(chain, "miner1") = 100
    /\ GetBalance(chain, "alice") = -30
    /\ ret = 30

\* C10: reference scenario.  The program as built (DIFFICULTY = 2) runs
\* Blockchain::new, the two create_transaction calls and
\* mine_pending_transactions("miner1") and then observes pending count 0,
\* chain length 2 and the balances 100, -30 and 30.  (A run that ends in the
\* overflow panic of the nonce is not held against the claim.)
C10_ReferenceScenario ==
    (difficulty = DIFFICULTY) => <>(ScenarioObserved \/ pc = "panicked")

\* The same scenario where mine_block can leave its loop (difficulty 0):
\* the observations are made, with the values of C10; two transactions are
\* pending after the second create_transaction.
Scenario_ValuesWhenMined ==
    /\ (difficulty = 0) => <>ScenarioObserved
    /\ [](op.name = "create_transaction" /\ op.args[1] = "bob"
             => GetPendingTransactionCount = 2)
    /\ [](op.name = "mine_pending_transactions" /\ Returned
             => ret = "true" /\ GetPendingTransactionCount = 0 /\ GetTotalBlocks = 2)

\* sequence s is a prefix of sequence t
IsPrefix(s, t) == Len(s) <= Len(t) /\ SubSeq(t, 1, Len(s)) = s

\* C11: append-only chain.  Every step of create_transaction,
\* mine_pending_transactions, add_block and get_balance leaves the chain it
\* found as a prefix of the chain it leaves, so no block of the chain changes
\* in any field and the length never decreases; from the call of such an
\* operation on, the chain at the call is a prefix of the chain and the chain
\* is at most one block longer.
C11_AppendOnly ==
    /\ [][(op.name # "new" \/ pc = "idle")
            => IsPrefix(chain, chain') /\ Len(chain') <= Len(chain) + 1]_vars
    /\ [](op.name # "new"
            => IsPrefix(pre.chain, chain) /\ Len(chain) <= Len(pre.chain) + 1)

\* mine_pending_transactions has returned true: the chain is the chain of
\* the call and one more block
C11_Witness ==
    /\ Returned /\ op.name = "mine_pending_transactions"
    /\ ret = "true"
    /\ Len(chain) = Len(pre.chain) + 1
    /\ Len(Tip(chain).transactions) >= 2

\* C12: hash reproducibility.  When mine_block has left its loop the hash of
\* its block is calculate_hash of the block's stored fields and nonce, and
\* once an operation has returned this holds of every block of the chain:
\* the genesis block, the blocks of mine_pending_transactions and the blocks
\* of add_block, whose previous_hash was overwritten before mining.
C12_HashReproducible ==
    /\ pc = "mined" => MiningBlock.hash = CalculateHash(MiningBlock)
    /\ Returned => \A i \in 1..Len(chain) : chain[i].hash = CalculateHash(chain[i])

\* add_block has returned for a block that carried a transaction and a
\* previous_hash other than the tip's hash: its stored previous_hash is the
\* overwritten one
C12_Witness ==
    /\ Returned /\ op.name = "add_block"
    /\ Len(chain) >= 2
    /\ Tip(chain).transactions # << >>
    /\ op.args[2] # Tip(chain).previous_hash
    /\ Tip(chain).hash # << >>

\* C13: a rejected admission changes nothing.  Mempool::add_transaction given
\* a transaction with an empty signature returns false, without a panic, and
\* leaves the mempool (contents, order and length) and the chain exactly as
\* they were at the call.
C13_RejectedAdmission ==
    (op.name = "add_transaction" /\ op.args[1].signature = << >>)
        => /\ pc = "idle"
           /\ ret = "false"
           /\ mempool = pre.mempool
           /\ MempoolLen(mempool) = MempoolLen(pre.mempool)
           /\ chain = pre.chain

\* an unsigned transaction was rejected while another one was pending and
\* the chain held a mined block besides the genesis block
C13_Witness ==
    /\ op.name = "add_transaction" /\ op.args[1].signature = << >>
    /\ ret = "false"
    /\ pre.mempool # << >>
    /\ Len(pre.chain) >= 2

\* C14: mempool signature invariant.  In every reachable state, whatever
\* sequence of add_transaction (signed or unsigned transactions),
\* create_transaction, get_transactions and mine_pending_transactions calls
\* led to it, every transaction held in the mempool has a non-empty
\* signature.
C14_MempoolSigned ==
    \A i \in 1..Len(mempool) : mempool[i].signature # << >>

\* a transaction signed by its caller and handed to add_transaction is
\* pending, and the call last made offered the mempool an unsigned one
C14_Witness ==
    /\ op.name = "add_transaction" /\ op.args[1].signature = << >>
    /\ Len(mempool) = 1
    /\ mempool[1].recipient = "miner1" /\ mempool[1].amount = 5

\* C15: initial state.  When Blockchain::new has returned and no other call
\* was made, the chain holds exactly one block, with index 0, previous hash
\* "0" and no transaction, whose hash is the hash of its fields and nonce and
\* has the leading '0' characters of the difficulty; the mempool is empty and
\* get_balance is 0 for every address.
C15_InitialState ==
    (op.name = "new" /\ Returned)
        => /\ GetTotalBlocks = 1
           /\ chain[1].index = 0
           /\ chain[1].previous_hash = <<"0">>
           /\ chain[1].transactions = << >>
           /\ chain[1].hash = CalculateHash(chain[1])
           /\ LeadingZeros(chain[1].hash, difficulty)
           /\ mempool = << >>
           /\ GetPendingTransactionCount = 0
           /\ \A a \in Addresses : GetBalance(chain, a) = 0

\* Blockchain::new has just returned
C15_Witness ==
    /\ op.name = "new" /\ Returned
    /\ ret = "unit"
    /\ Len(chain[1].hash) = HashLen

\* C16: drain-before-mine ordering.  In every state in which the block of
\* mine_pending_transactions is being mined or is mined and not yet appended,
\* the pending count is 0; and a step of mine_pending_transactions makes the
\* chain longer only from a state in which mine_block has left its loop, by
\* appending the mined block.
C16_DrainBeforeMine ==
    /\ []((op.name = "mine_pending_transactions" /\ pc \in {"mining", "mined"})
            => GetPendingTransactionCount = 0)
    /\ [][(op.name = "mine_pending_transactions" /\ Len(chain') > Len(chain))
            => /\ pc = "mined"
               /\ LeadingZeros(cur[1].hash, difficulty)
               /\ chain' = Append(chain, cur[1])]_vars

\* the block of mine_pending_transactions holds the coinbase and the two
\* transactions that were pending at the call, and is being mined
C16_Witness ==
    /\ op.name = "mine_pending_transactions" /\ pc = "mining"
    /\ Len(pre.mempool) = 2
    /\ Len(cur[1].transactions) = 3
    /\ Len(chain) = Len(pre.chain)

\* the hash mine_block computes for block b at nonce n
CandidateHash(b, n) == CalculateHash([b EXCEPT !.nonce = n])

\* C17: mining exit condition.  With the built-in DIFFICULTY, mine_block
\* never continues past a nonce whose candidate hash has its first DIFFICULTY
\* characters all '0' (while it is in its loop no smaller nonce passes the
\* test), and when it has left its loop the stored hash passes the test and
\* is the candidate hash of the stored nonce, the smallest passing one.
C17_MiningExit ==
    (difficulty = DIFFICULTY) =>
        /\ pc = "mining" =>
              \A n \in 0..(MiningBlock.nonce - 1) :
                  ~LeadingZeros(CandidateHash(MiningBlock, n), DIFFICULTY)
        /\ pc = "mined" =>
              /\ LeadingZeros(MiningBlock.hash, DIFFICULTY)
              /\ MiningBlock.hash = CandidateHash(MiningBlock, MiningBlock.nonce)
              /\ \A n \in 0..(MiningBlock.nonce - 1) :
                    ~LeadingZeros(CandidateHash(MiningBlock, n), DIFFICULTY)

\* C18: block contents and order.  When mine_pending_transactions has
\* returned true, the block it appended holds the coinbase (from "0" to the
\* miner, REWARD_AMOUNT) followed by exactly the transactions that were in
\* the mempool at the call, in their order of admission, each once; its
\* index is the chain length at the call and its previous_hash the hash of
\* the tip at the call.
C18_BlockContents ==
    (op.name = "mine_pending_transactions" /\ Returned /\ ret = "true")
        => LET b == Tip(chain)
           IN  /\ Len(chain) = Len(pre.chain) + 1
               /\ Len(b.transactions) = Len(pre.mempool) + 1
               /\ b.transactions[1].sender = COINBASE_SENDER
               /\ b.transactions[1].recipient = op.args[1]
               /\ b.transactions[1].amount = REWARD_AMOUNT
               /\ SubSeq(b.transactions, 2, Len(b.transactions)) = pre.mempool
               /\ b.index = Len(pre.chain)
               /\ b.previous_hash = Tip(pre.chain).hash

\* mine_pending_transactions has returned true for a mempool that held two
\* different transactions
C18_Witness ==
    /\ op.name = "mine_pending_transactions" /\ Returned
    /\ ret = "true"
    /\ Len(pre.mempool) = 2
    /\ pre.mempool[1] # pre.mempool[2]

\* C20: frame of create_transaction.  When create_transaction has returned,
\* the chain is the chain of the call, so get_balance of every address is
\* what it was at the call; the mempool is the mempool of the call followed
\* by one more transaction, the new one (sender, recipient and amount of the
\* call, signed), and the call returned true.
C20_CreateFrame ==
    (op.name = "create_transaction" /\ Returned)
        => /\ chain = pre.chain
           /\ GetPendingTransactionCount = MempoolLen(pre.mempool) + 1
           /\ IsPrefix(pre.mempool, mempool)
           /\ Tip(mempool).sender = op.args[1]
           /\ Tip(mempool).recipient = op.args[2]
           /\ Tip(mempool).amount = op.args[3]
           /\ Tip(mempool).signature # << >>
           /\ ret = "true"
           /\ \A a \in Addresses : GetBalance(chain, a) = GetBalance(pre.chain, a)

\* create_transaction has returned on a chain with a mined block of
\* transactions, another transaction being pending before the call
C20_Witness ==
    /\ op.name = "create_transaction" /\ Returned
    /\ pre.mempool # << >>
    /\ Tip(mempool) # pre.mempool[1]
    /\ Len(chain) >= 2
    /\ Tip(chain).transactions # << >>

\* the bag of the signed transactions of txs[i..]; a transaction admitted to
\* the mempool is signed, a coinbase is not
RECURSIVE SignedBag(_, _)
SignedBag(txs, i) ==
    IF i > Len(txs) THEN EmptyBag
    ELSE (IF txs[i].signature # << >> THEN SetToBag({txs[i]}) ELSE EmptyBag)
         (+) SignedBag(txs, i + 1)

RECURSIVE ChainBag(_, _)
ChainBag(c, i) ==
    IF i > Len(c) THEN EmptyBag
    ELSE SignedBag(c[i].transactions, 1) (+) ChainBag(c, i + 1)

\* the admitted transactions wherever they are held, with their number of
\* occurrences: in the mempool, in the block being mined, in the chain
Held ==
    SignedBag(mempool, 1) (+) ChainBag(chain, 1)
    (+) (IF cur = << >> THEN EmptyBag ELSE SignedBag(cur[1].transactions, 1))

\* the transactions create_transaction can admit
AdmissibleTxs ==
    { Sign(NewTransaction(a[1], a[2], a[3], t), a[4]) : a \in CreateArgs, t \in Times }

\* transaction x is in a block of the chain
InChain(x) ==
    \E i \in 1..Len(chain) :
        \E j \in 1..Len(chain[i].transactions) : chain[i].transactions[j] = x

\* C19: no transaction is lost or duplicated.  Over any sequence of
\* create_transaction and mine_pending_transactions calls: a step that
\* admits a transaction adds one occurrence of it to the transactions held,
\* every other step keeps the held transactions with their numbers of
\* occurrences; between operations every held transaction is in the mempool
\* or in a block of the chain (no block is under construction), so each
\* admitted transaction is in exactly one of the two, once; and a transaction
\* pending when mine_pending_transactions is called is eventually in the
\* chain.
C19_NoLossNoDuplication ==
    /\ [][Held' = IF pc = "idle" /\ op'.name = "create_transaction"
                  THEN Held (+) SetToBag({Tip(mempool')})
                  ELSE Held]_vars
    /\ [](Returned =>
            /\ cur = << >>
            /\ Held = SignedBag(mempool, 1) (+) ChainBag(chain, 1)
            /\ BagCardinality(Held) = TxCreated)
    /\ \A x \in AdmissibleTxs :
          (op.name = "mine_pending_transactions" /\ pc = "mining"
              /\ \E i \in 1..Len(pre.mempool) : pre.mempool[i] = x)
          ~> InChain(x)

\* one admitted transaction is in the block mine_pending_transactions
\* appended and not in the mempool, another one is pending and not in the
\* chain
C19_Witness ==
    /\ Returned /\ op.name = "create_transaction"
    /\ Len(chain) = 2 /\ Len(mempool) = 1
    /\ Len(Tip(chain).transactions) = 2
    /\ InChain(Tip(chain).transactions[2]) /\ ~InChain(mempool[1])

====
